---- MODULE Spec2Model ----
(***************************************************************************)
(* Model of the drain scheduling engine of draino,                         *)
(* internal/kubernetes/drainSchedule.go.                                   *)
(*                                                                         *)
(* Time is counted in seconds.  The calls of the engine's methods and the  *)
(* timer callbacks run on goroutines: every step that touches shared       *)
(* state is an action, a goroutine may be delayed for any time between two *)
(* steps, and the clock advances independently (Tick).                     *)
(* Drainer (Drain, MarkDrain) is the external collaborator: each of its    *)
(* calls may succeed or fail.                                              *)
(*                                                                         *)
(* A schedule object is a record of `heap`.  Besides the fields of the Go  *)
(* struct (when, failed, finish, timer) the record carries the position of *)
(* the two goroutines that hold a reference to the object: `call`, the     *)
(* Schedule call that created it (its locals node and when are the         *)
(* object's), and `cb`, the callback of its timer.                         *)
(***************************************************************************)
EXTENDS Integers, Sequences, FiniteSets, TLC

\* ---------------------------------------------------------------- bounds
Nodes == {"n1", "n2"}
\* number of schedule objects created in one run
MaxScheds == 2
\* number of seconds the clock runs after the start of the process
Horizon == 23
\* the configured period (the argument of NewDrainSchedules), in seconds
Period == 12
\* cap of the per-schedule count of Drain calls
MaxDrains == 2

\* ------------------------------------------------------------- constants
SetConditionTimeout == 10
Second == 1
\* time.Time{}: the zero time, long before any clock reading
ZeroTime == 0
\* the clock at construction; the zero time plus the period is before it
StartTime == ZeroTime + Period + 1
MaxTime == StartTime + Horizon

NoSched == 0
NoNode == ""

VARIABLES
    now,                    \* time.Now()
    period,                 \* DrainSchedules.period
    mutex,                  \* DrainSchedules.Mutex: NoNode when free, else the node of the
                            \* call that holds it (every method unlocks before it blocks)
    schedules,              \* DrainSchedules.schedules: node name -> schedule (NoSched: no entry)
    heap,                   \* the schedule objects allocated so far, in allocation order
    lastDrainScheduledFor,  \* DrainSchedules.lastDrainScheduledFor
    last                    \* the return or the announcement made by the last step

vars == <<now, period, mutex, schedules, heap, lastDrainScheduledFor, last>>

Scheds == 1..Len(heap)

\* ------------------------------------------------------------- helpers
\* what a step did: op names the call (or the error logged by a callback),
\* s the schedule concerned, the rest are the arguments or the values returned
NoEv == [op |-> "None", s |-> NoSched, node |-> NoNode, t1 |-> ZeroTime,
         t2 |-> ZeroTime, b1 |-> FALSE, b2 |-> FALSE]

Ev(op, s, node, t1, t2, b1, b2) ==
    [op |-> op, s |-> s, node |-> node, t1 |-> t1, t2 |-> t2, b1 |-> b1, b2 |-> b2]

\* time.Time.IsZero
IsZero(t) == t = ZeroTime

\* time.Time.Before
Before(t, u) == t < u

\* schedule.isFailed
isFailed(s) == heap[s].failed

\* time.Timer.Stop without effect
TimerStop_NoOp(tm) == tm

\* time.Timer.Stop: prevents the firing of a timer that has not fired yet,
\* does nothing to a timer that already fired or was stopped
TimerStop(tm) == IF tm = "armed" THEN "stopped" ELSE tm

\* RetryWithTimeout(f, SetConditionRetryPeriod, SetConditionTimeout), entered
\* at deadline - SetConditionTimeout: f is attempted again and again (many
\* times a second) until the timeout has elapsed
RetryRunning(deadline) == now < deadline

\* RetryWithTimeout returns its error once the timeout has elapsed
RetryTimedOut(deadline) == now >= deadline

\* WhenNextSchedule without the period: the floor alone
WhenNextSchedule_FloorOnly ==
    now + SetConditionTimeout + Second

\* WhenNextSchedule without the second of slack after the announcement timeout
WhenNextSchedule_NoSlack ==
    LET sooner == now + SetConditionTimeout
        when == lastDrainScheduledFor + period
    IN  IF Before(when, sooner) THEN sooner ELSE when

\* WhenNextSchedule
WhenNextSchedule ==
    LET sooner == now + SetConditionTimeout + Second
        when == lastDrainScheduledFor + period
    IN  IF Before(when, sooner) THEN sooner ELSE when

\* newSchedule: the schedule object with its timer armed for `when`; the
\* Schedule call that made it enters RetryWithTimeout once it has unlocked
newSchedule(n, when) ==
    [node |-> n, when |-> when, failed |-> FALSE, finish |-> ZeroTime,
     timer |-> "armed", cb |-> "idle", deadline |-> ZeroTime, drains |-> 0,
     call |-> "announce", callDeadline |-> now + SetConditionTimeout]

\* DeleteSchedule under the lock, s.timer.Stop(): the schedule objects afterwards
StopTimerOf(n) ==
    IF schedules[n] # NoSched
    THEN [heap EXCEPT ![schedules[n]].timer = TimerStop(@)]
    ELSE heap

\* DeleteSchedule without delete(d.schedules, name)
DeleteEntry_Keep(n) == schedules

\* DeleteSchedule under the lock, delete(d.schedules, name): the map afterwards
DeleteEntry(n) ==
    IF schedules[n] # NoSched
    THEN [schedules EXCEPT ![n] = NoSched]
    ELSE schedules

\* ---------------------------------------------------------------- Init
Init ==
    /\ now = StartTime
    /\ period = Period
    /\ mutex = NoNode
    /\ schedules = [n \in Nodes |-> NoSched]
    /\ heap = <<>>
    /\ lastDrainScheduledFor = ZeroTime
    /\ last = NoEv

\* ------------------------------------------------------------- actions
\* the instants after `now` at which something is due: the firing of an armed
\* timer, the end of a running RetryWithTimeout
Due ==
    {t \in (now + 1)..MaxTime :
        \E s \in Scheds :
            \/ heap[s].timer = "armed" /\ heap[s].when = t
            \/ heap[s].cb \in {"retryF", "retryS"} /\ heap[s].deadline = t
            \/ heap[s].call = "announce" /\ heap[s].callDeadline = t}

\* the clock advances to the next instant at which something is due (the
\* goroutines take their steps at these instants, in any order)
Tick ==
    /\ Due # {}
    /\ now' = CHOOSE t \in Due : \A u \in Due : t <= u
    /\ last' = NoEv
    /\ UNCHANGED <<period, mutex, schedules, heap, lastDrainScheduledFor>>

\* Schedule without the lookup of the node in d.schedules
Schedule_NoLookup(n) ==
    /\ mutex = NoNode
    /\ LET when == WhenNextSchedule IN
       /\ Len(heap) < MaxScheds
       /\ lastDrainScheduledFor' = when
       /\ heap' = Append(heap, newSchedule(n, when))
       /\ schedules' = [schedules EXCEPT ![n] = Len(heap) + 1]
       /\ last' = NoEv
    /\ mutex' = NoNode
    /\ UNCHANGED <<now, period>>

\* Schedule that creates the schedule and goes on to the announcement
\* without d.Unlock()
Schedule_KeepLock(n) ==
    /\ mutex = NoNode
    /\ IF schedules[n] # NoSched
       THEN /\ last' = Ev("ScheduleRejected", schedules[n], n, heap[schedules[n]].when,
                          ZeroTime, FALSE, FALSE)
            /\ mutex' = NoNode
            /\ UNCHANGED <<schedules, heap, lastDrainScheduledFor>>
       ELSE LET when == WhenNextSchedule IN
            /\ Len(heap) < MaxScheds
            /\ lastDrainScheduledFor' = when
            /\ heap' = Append(heap, newSchedule(n, when))
            /\ schedules' = [schedules EXCEPT ![n] = Len(heap) + 1]
            /\ last' = NoEv
            /\ mutex' = n
    /\ UNCHANGED <<now, period>>

\* Schedule(node n), from d.Lock() to d.Unlock(): returns
\* (sched.when, AlreadyScheduledError) or creates the schedule
Schedule(n) ==
    /\ mutex = NoNode
    /\ IF schedules[n] # NoSched
       THEN /\ last' = Ev("ScheduleRejected", schedules[n], n, heap[schedules[n]].when,
                          ZeroTime, FALSE, FALSE)
            /\ UNCHANGED <<schedules, heap, lastDrainScheduledFor>>
       ELSE LET when == WhenNextSchedule IN
            /\ Len(heap) < MaxScheds
            /\ lastDrainScheduledFor' = when
            /\ heap' = Append(heap, newSchedule(n, when))
            /\ schedules' = [schedules EXCEPT ![n] = Len(heap) + 1]
            /\ last' = NoEv
    /\ mutex' = NoNode
    /\ UNCHANGED <<now, period>>

\* the Schedule call that created s: one attempt of RetryWithTimeout at
\* MarkDrain(node, when, time.Time{}, false); a successful attempt ends the
\* retry and Schedule returns (when, nil)
ScheduleMarkDrain(s, ok) ==
    /\ heap[s].call = "announce"
    /\ RetryRunning(heap[s].callDeadline)
    /\ heap' = [heap EXCEPT ![s].call = IF ok THEN "ok" ELSE @,
                            ![s].callDeadline = IF ok THEN ZeroTime ELSE @]
    /\ last' = Ev("MarkDrain", s, heap[s].node, heap[s].when, ZeroTime, FALSE, ok)
    /\ UNCHANGED <<now, period, mutex, schedules, lastDrainScheduledFor>>

\* Schedule returning the announcement error without d.DeleteSchedule
ScheduleRollback_NoDelete(s) ==
    /\ heap[s].call = "announce"
    /\ RetryTimedOut(heap[s].callDeadline)
    /\ heap' = [heap EXCEPT ![s].call = "err", ![s].callDeadline = ZeroTime]
    /\ last' = Ev("ScheduleFailed", s, heap[s].node, ZeroTime, ZeroTime, FALSE, FALSE)
    /\ UNCHANGED <<now, period, mutex, schedules, lastDrainScheduledFor>>

\* a rollback that also rewinds lastDrainScheduledFor to the zero time
ScheduleRollback_Rewind(s) ==
    /\ heap[s].call = "announce"
    /\ RetryTimedOut(heap[s].callDeadline)
    /\ mutex = NoNode
    /\ LET n == heap[s].node IN
       /\ schedules' = DeleteEntry(n)
       /\ heap' = [StopTimerOf(n) EXCEPT ![s].call = "err", ![s].callDeadline = ZeroTime]
       /\ last' = Ev("ScheduleFailed", s, n, ZeroTime, ZeroTime, FALSE, FALSE)
    /\ lastDrainScheduledFor' = ZeroTime
    /\ UNCHANGED <<now, period, mutex>>

\* the Schedule call that created s: RetryWithTimeout gives up and returns the
\* error, then d.DeleteSchedule(node.GetName()) and return (time.Time{}, err)
ScheduleRollback(s) ==
    /\ heap[s].call = "announce"
    /\ RetryTimedOut(heap[s].callDeadline)
    /\ mutex = NoNode
    /\ LET n == heap[s].node IN
       /\ schedules' = DeleteEntry(n)
       /\ heap' = [StopTimerOf(n) EXCEPT ![s].call = "err", ![s].callDeadline = ZeroTime]
       /\ last' = Ev("ScheduleFailed", s, n, ZeroTime, ZeroTime, FALSE, FALSE)
    /\ UNCHANGED <<now, period, mutex, lastDrainScheduledFor>>

\* DeleteSchedule(n), called from outside the engine
DeleteSchedule(n) ==
    /\ mutex = NoNode
    /\ schedules' = DeleteEntry(n)
    /\ heap' = StopTimerOf(n)
    /\ last' = Ev("DeleteSchedule", schedules[n], n, ZeroTime, ZeroTime, FALSE, FALSE)
    /\ UNCHANGED <<now, period, mutex, lastDrainScheduledFor>>

\* HasSchedule that reports every entry as not failed
HasSchedule_NoFlag(n) ==
    /\ mutex = NoNode
    /\ last' = IF schedules[n] = NoSched
               THEN Ev("HasSchedule", NoSched, n, ZeroTime, ZeroTime, FALSE, FALSE)
               ELSE Ev("HasSchedule", schedules[n], n, ZeroTime, ZeroTime, TRUE, FALSE)
    /\ UNCHANGED <<now, period, mutex, schedules, heap, lastDrainScheduledFor>>

\* HasSchedule(n): b1, b2 are the values returned
HasSchedule(n) ==
    /\ mutex = NoNode
    /\ last' = IF schedules[n] = NoSched
               THEN Ev("HasSchedule", NoSched, n, ZeroTime, ZeroTime, FALSE, FALSE)
               ELSE Ev("HasSchedule", schedules[n], n, ZeroTime, ZeroTime,
                       TRUE, isFailed(schedules[n]))
    /\ UNCHANGED <<now, period, mutex, schedules, heap, lastDrainScheduledFor>>

\* IsScheduledByOldEvent without the test of the failed flag
OldEvent_NoFailedTest(n, transitionTime) ==
    LET sched == schedules[n] IN
    IF sched = NoSched THEN FALSE
    ELSE /\ Before(heap[sched].when, transitionTime)
         /\ ~IsZero(heap[sched].finish)

\* the value IsScheduledByOldEvent returns
OldEvent(n, transitionTime) ==
    LET sched == schedules[n] IN
    IF sched = NoSched THEN FALSE
    ELSE /\ Before(heap[sched].when, transitionTime)
         /\ ~isFailed(sched)
         /\ ~IsZero(heap[sched].finish)

\* IsScheduledByOldEvent(n, transitionTime): b1 is the value returned
IsScheduledByOldEvent(n, transitionTime) ==
    /\ mutex = NoNode
    /\ last' = Ev("IsScheduledByOldEvent", schedules[n], n, transitionTime, ZeroTime,
                  OldEvent(n, transitionTime), FALSE)
    /\ UNCHANGED <<now, period, mutex, schedules, heap, lastDrainScheduledFor>>

\* a timer that stays armed after it fired
TimerFire_Rearm(s) ==
    /\ heap[s].timer = "armed"
    /\ now >= heap[s].when
    /\ heap[s].drains < MaxDrains
    /\ heap' = [heap EXCEPT ![s].cb = "drain", ![s].drains = @ + 1]
    /\ last' = NoEv
    /\ UNCHANGED <<now, period, mutex, schedules, lastDrainScheduledFor>>

\* the timer of schedule s fires: its callback starts and calls Drain(node)
TimerFire(s) ==
    /\ heap[s].timer = "armed"
    /\ now >= heap[s].when
    /\ heap[s].drains < MaxDrains
    /\ heap' = [heap EXCEPT ![s].timer = "fired", ![s].cb = "drain", ![s].drains = @ + 1]
    /\ last' = NoEv
    /\ UNCHANGED <<now, period, mutex, schedules, lastDrainScheduledFor>>

\* a callback that sets the failed flag whatever Drain returned
DrainReturn_MarkFailed(s, err) ==
    /\ heap[s].cb = "drain"
    /\ heap' = [heap EXCEPT ![s].finish = now,
                            ![s].failed = TRUE,
                            ![s].cb = IF err THEN "setFailed" ELSE "retryS",
                            ![s].deadline = IF err THEN @ ELSE now + SetConditionTimeout]
    /\ last' = NoEv
    /\ UNCHANGED <<now, period, mutex, schedules, lastDrainScheduledFor>>

\* callback of s: Drain returns (with an error or not) and sched.finish = time.Now();
\* without an error RetryWithTimeout is entered next
DrainReturn(s, err) ==
    /\ heap[s].cb = "drain"
    /\ heap' = [heap EXCEPT ![s].finish = now,
                            ![s].cb = IF err THEN "setFailed" ELSE "retryS",
                            ![s].deadline = IF err THEN @ ELSE now + SetConditionTimeout]
    /\ last' = NoEv
    /\ UNCHANGED <<now, period, mutex, schedules, lastDrainScheduledFor>>

\* callback of s, error branch: sched.setFailed(); RetryWithTimeout is entered next
SetFailed(s) ==
    /\ heap[s].cb = "setFailed"
    /\ heap' = [heap EXCEPT ![s].failed = TRUE, ![s].cb = "retryF",
                            ![s].deadline = now + SetConditionTimeout]
    /\ last' = NoEv
    /\ UNCHANGED <<now, period, mutex, schedules, lastDrainScheduledFor>>

\* a callback that announces every outcome with failed = false
TimerMarkDrain_FlagFalse(s, ok) ==
    /\ heap[s].cb \in {"retryF", "retryS"}
    /\ RetryRunning(heap[s].deadline)
    /\ heap' = [heap EXCEPT ![s].cb = IF ok THEN "done" ELSE @,
                            ![s].deadline = IF ok THEN ZeroTime ELSE @]
    /\ last' = Ev("MarkDrain", s, heap[s].node, heap[s].when, heap[s].finish, FALSE, ok)
    /\ UNCHANGED <<now, period, mutex, schedules, lastDrainScheduledFor>>

\* callback of s: one attempt of RetryWithTimeout at
\* MarkDrain(node, when, sched.finish, true) in the error branch,
\* MarkDrain(node, when, sched.finish, false) in the success branch
TimerMarkDrain(s, ok) ==
    /\ heap[s].cb \in {"retryF", "retryS"}
    /\ RetryRunning(heap[s].deadline)
    /\ heap' = [heap EXCEPT ![s].cb = IF ok THEN "done" ELSE @,
                            ![s].deadline = IF ok THEN ZeroTime ELSE @]
    /\ last' = Ev("MarkDrain", s, heap[s].node, heap[s].when, heap[s].finish,
                  heap[s].cb = "retryF", ok)
    /\ UNCHANGED <<now, period, mutex, schedules, lastDrainScheduledFor>>

\* a callback whose RetryWithTimeout starts over when its timeout has elapsed
TimerTimeout_RetryAgain(s) ==
    /\ heap[s].cb \in {"retryF", "retryS"}
    /\ RetryTimedOut(heap[s].deadline)
    /\ heap' = [heap EXCEPT ![s].deadline = now + SetConditionTimeout]
    /\ last' = NoEv
    /\ UNCHANGED <<now, period, mutex, schedules, lastDrainScheduledFor>>

\* callback of s: RetryWithTimeout gives up, the error is logged
\* ("Failed to place condition following drain ...") and the callback ends
TimerTimeout(s) ==
    /\ heap[s].cb \in {"retryF", "retryS"}
    /\ RetryTimedOut(heap[s].deadline)
    /\ heap' = [heap EXCEPT ![s].cb = "done", ![s].deadline = ZeroTime]
    /\ last' = Ev("LogError", s, heap[s].node, heap[s].when, heap[s].finish,
                  heap[s].cb = "retryF", FALSE)
    /\ UNCHANGED <<now, period, mutex, schedules, lastDrainScheduledFor>>

\* the state of a schedule object r: PENDING until its timer fires, RUNNING
\* while its callback is in Drain, then FAILED when Drain returned an error
\* and SUCCEEDED when it returned none
StateOf(r) ==
    IF r.cb = "idle" THEN "PENDING"
    ELSE IF r.cb = "drain" THEN "RUNNING"
    ELSE IF r.cb \in {"setFailed", "retryF"} \/ r.failed THEN "FAILED"
    ELSE "SUCCEEDED"

\* the transition times passed to IsScheduledByOldEvent
TransitionTimes == {StartTime, now}

Next ==
    \/ Tick
    \/ \E n \in Nodes : Schedule(n)
    \/ \E s \in Scheds, ok \in BOOLEAN : ScheduleMarkDrain(s, ok)
    \/ \E s \in Scheds : ScheduleRollback(s)
    \/ \E n \in Nodes : DeleteSchedule(n)
    \/ \E n \in Nodes : HasSchedule(n)
    \/ \E n \in Nodes, t \in TransitionTimes : IsScheduledByOldEvent(n, t)
    \/ \E s \in Scheds : TimerFire(s)
    \/ \E s \in Scheds, err \in BOOLEAN : DrainReturn(s, err)
    \/ \E s \in Scheds : SetFailed(s)
    \/ \E s \in Scheds, ok \in BOOLEAN : TimerMarkDrain(s, ok)
    \/ \E s \in Scheds : TimerTimeout(s)

Spec == Init /\ [][Next]_vars

\* the steps that need no caller: time passes, a due timer fires, Drain
\* returns, a goroutine past a blocking call takes its next step, a
\* RetryWithTimeout whose timeout elapsed returns
Progress ==
    \/ Tick
    \/ \E s \in Scheds : TimerFire(s)
    \/ \E s \in Scheds, err \in BOOLEAN : DrainReturn(s, err)
    \/ \E s \in Scheds : SetFailed(s)
    \/ \E s \in Scheds : TimerTimeout(s)
    \/ \E s \in Scheds : ScheduleRollback(s)

\* The system does not stop while one of these steps can be taken; the
\* callers are free to call or not, and MarkDrain may fail at every attempt.
Fairness == WF_vars(Progress)

LiveSpec == Spec /\ Fairness

\* ---------------------------------------------------------------- claims
\* the schedule created by the step, NoSched when the step creates none
Created == IF Len(heap') = Len(heap) + 1 THEN Len(heap') ELSE NoSched

\* C1: when an entry for n is in the map, Schedule(n) returns that entry's
\* `when` with AlreadyScheduled and changes nothing: no schedule is created
\* for a node that has an entry, an entry is never replaced by another one,
\* and a pending (armed) schedule is the entry of its node, so that there is
\* at most one schedule per node name at every instant.
C1_AlreadyScheduled ==
    /\ [](\A s \in Scheds : heap[s].timer = "armed" => schedules[heap[s].node] = s)
    /\ [][/\ last'.op = "ScheduleRejected" =>
               /\ schedules[last'.node] # NoSched
               /\ last'.t1 = heap[schedules[last'.node]].when
               /\ UNCHANGED <<schedules, heap, lastDrainScheduledFor, period, mutex>>
          /\ \A n \in Nodes : schedules[n] # NoSched =>
               /\ Created # NoSched => heap'[Created].node # n
               /\ schedules'[n] \in {schedules[n], NoSched}]_vars

\* C1 witness: Schedule(n) is rejected while the Schedule(n) call that created
\* the entry is still announcing it
C1_Witness ==
    /\ last.op = "ScheduleRejected"
    /\ heap[last.s].call = "announce"
    /\ last.t1 = heap[last.s].when

\* C2: at most one Drain(node) is in progress per node name
C2_OneDrainPerNode ==
    \A s1, s2 \in Scheds :
        (s1 # s2 /\ heap[s1].node = heap[s2].node) =>
            ~(heap[s1].cb = "drain" /\ heap[s2].cb = "drain")

\* C3: the `when` values of the schedules, in the order of their creation
\* under the lock, are at least one period apart
C3_Stagger ==
    \A i \in Scheds : i + 1 \in Scheds => heap[i + 1].when >= heap[i].when + period

\* C3 witness: a second schedule was created after the first one was rolled back
C3_Witness ==
    /\ Len(heap) >= 2
    /\ heap[1].call = "err"
    /\ heap[2].when >= heap[1].when + period

\* C4: a schedule created at clock time `now` gets
\* max(lastDrainScheduledFor + period, now + timeout + 1 second); the first
\* schedule gets the floor, and a second one created at the same instant with
\* a period above the floor gets the first one's `when` plus the period
C4_WhenFormula ==
    [][Created # NoSched =>
        LET when == heap'[Created].when
            candidate == lastDrainScheduledFor + period
            floor == now + 10 + 1
        IN  /\ when = IF candidate > floor THEN candidate ELSE floor
            /\ Len(heap) = 0 => when = floor
            /\ (Len(heap) = 1 /\ heap[1].when = floor /\ period > 10 + 1) =>
                   when = heap[1].when + period]_vars

\* C4 witness: two nodes scheduled at the start instant
C4_Witness ==
    /\ Len(heap) = 2
    /\ now = StartTime
    /\ heap[1].node # heap[2].node
    /\ heap[1].when = StartTime + 11
    /\ heap[2].when = heap[1].when + period

\* C5: a Schedule(n) whose announcement failed until the timeout returns the
\* zero time with the error; at its return the timer of the schedule it
\* created is no longer armed and n has no entry, so that HasSchedule(n) then
\* returns (false, false) and Schedule(n) is rejected only when an entry exists
C5_Rollback ==
    /\ [][last'.op = "ScheduleFailed" =>
            /\ heap[last'.s].call = "announce"
            /\ now >= heap[last'.s].callDeadline
            /\ last'.node = heap[last'.s].node
            /\ IsZero(last'.t1)
            /\ heap'[last'.s].timer # "armed"
            /\ schedules'[last'.node] = NoSched]_vars
    /\ [](last.op = "HasSchedule" /\ schedules[last.node] = NoSched =>
            ~last.b1 /\ ~last.b2)
    /\ [](last.op = "ScheduleRejected" => schedules[last.node] # NoSched)

\* C5 witness: Schedule has returned the announcement error, its schedule's
\* timer is stopped and the entry is gone
C5_Witness ==
    /\ last.op = "ScheduleFailed"
    /\ heap[last.s].timer = "stopped"
    /\ heap[last.s].call = "err"
    /\ schedules[last.node] = NoSched

\* the Drain of schedule s has returned an error
DrainErrored(s) == heap[s].cb \in {"setFailed", "retryF"} \/ heap[s].failed

\* C6: IsScheduledByOldEvent returns false for a schedule whose Drain returned
\* an error, at every moment
C6_FailedNeverOld ==
    (last.op = "IsScheduledByOldEvent" /\ last.s # NoSched /\ DrainErrored(last.s))
        => ~last.b1

\* C7: IsScheduledByOldEvent(n, t) returns true exactly when n has an entry
\* with finish non-zero, failed false and when < t, and changes no state
C7_OldEventExact ==
    /\ [](last.op = "IsScheduledByOldEvent" =>
            last.b1 = (/\ schedules[last.node] # NoSched
                       /\ heap[schedules[last.node]].finish # ZeroTime
                       /\ ~heap[schedules[last.node]].failed
                       /\ heap[schedules[last.node]].when < last.t1))
    /\ [][last'.op = "IsScheduledByOldEvent" =>
            UNCHANGED <<now, period, mutex, schedules, heap, lastDrainScheduledFor>>]_vars

\* C7 witness: IsScheduledByOldEvent has returned true
C7_Witness ==
    /\ last.op = "IsScheduledByOldEvent"
    /\ last.b1
    /\ heap[last.s].cb \in {"retryS", "done"}

\* C8: DeleteSchedule(n) removes the entry of n and stops its timer in
\* whatever state the schedule is, and changes nothing when n has no entry;
\* Schedule(n) is rejected only when n has an entry, and a schedule created
\* for n gets a `when` at least one period after the `when` of every earlier
\* schedule of n
C8_DeleteSchedule ==
    /\ [][last'.op = "DeleteSchedule" =>
            LET n == last'.node
                e == schedules[n]
            IN  /\ schedules' = [schedules EXCEPT ![n] = NoSched]
                /\ IF e = NoSched
                   THEN heap' = heap
                   ELSE heap' = [heap EXCEPT ![e].timer =
                                    IF @ = "armed" THEN "stopped" ELSE @]
                /\ UNCHANGED <<now, period, mutex, lastDrainScheduledFor>>]_vars
    /\ [][Created # NoSched =>
            /\ schedules[heap'[Created].node] = NoSched
            /\ \A s \in Scheds : heap[s].node = heap'[Created].node =>
                   heap'[Created].when >= heap[s].when + period]_vars
    /\ [](last.op = "ScheduleRejected" => last.s = schedules[last.node] /\ last.s # NoSched)

\* C8 witness: the schedule of a node was deleted while its drain was running
\* and the node has been scheduled again
C8_Witness ==
    \E s1, s2 \in Scheds :
        /\ s1 < s2
        /\ heap[s1].node = heap[s2].node
        /\ heap[s1].cb = "drain"
        /\ schedules[heap[s2].node] = s2
        /\ heap[s2].when >= heap[s1].when + period

\* C9: a schedule removed from the map while its timer had not fired is
\* never drained and no terminal MarkDrain is made for it
C9_CancelledNeverDrains ==
    /\ [][\A s \in Scheds :
            (/\ schedules[heap[s].node] = s
             /\ schedules'[heap[s].node] # s
             /\ heap[s].timer = "armed") => heap'[s].timer = "stopped"]_vars
    /\ [][\A s \in Scheds : heap[s].timer = "stopped" => heap'[s].timer = "stopped"]_vars
    /\ [](\A s \in Scheds : heap[s].timer = "stopped" =>
            heap[s].cb = "idle" /\ heap[s].drains = 0 /\ IsZero(heap[s].finish))
    /\ [](last.op = "MarkDrain" /\ ~IsZero(last.t2) => heap[last.s].timer = "fired")

\* C9 witness: the clock has passed the `when` of a schedule that was deleted
\* while pending
C9_Witness ==
    \E s \in Scheds :
        /\ heap[s].timer = "stopped"
        /\ now > heap[s].when
        /\ heap[s].drains = 0

\* schedule s is the entry of its node
InMap(s) == schedules[heap[s].node] = s

\* C10: a schedule whose Schedule call returned success and whose entry is
\* not removed by a DeleteSchedule of its node (which the step that removes
\* an entry always is) has its timer fire and ends finished; Drain is invoked
\* exactly once for it; finish and failed, once set, stay, so that HasSchedule
\* reports (true, true) for good after a failed Drain and (true, false) with
\* finish set after a successful one
C10_Lifecycle ==
    /\ \A s \in 1..MaxScheds :
        (s \in Scheds /\ heap[s].call = "ok" /\ heap[s].when <= MaxTime /\ InMap(s))
            ~> (s \in Scheds /\ (\/ ~InMap(s)
                                 \/ /\ heap[s].timer = "fired"
                                    /\ ~IsZero(heap[s].finish)
                                    /\ heap[s].cb \in {"retryS", "retryF", "done"}))
    /\ [](\A s \in Scheds :
            /\ heap[s].drains <= 1
            /\ heap[s].timer = "fired" <=> heap[s].drains = 1
            /\ ~IsZero(heap[s].finish) => heap[s].drains = 1
            /\ heap[s].cb = "retryF" => heap[s].failed /\ ~IsZero(heap[s].finish)
            /\ heap[s].cb = "retryS" => ~heap[s].failed /\ ~IsZero(heap[s].finish)
            /\ heap[s].cb = "done" => ~IsZero(heap[s].finish))
    /\ [][\A s \in Scheds :
            /\ (InMap(s) /\ ~InMap(s)') =>
                   /\ last'.op \in {"DeleteSchedule", "ScheduleFailed"}
                   /\ last'.node = heap[s].node
            /\ heap[s].failed => heap'[s].failed
            /\ ~IsZero(heap[s].finish) => heap'[s].finish = heap[s].finish]_vars
    /\ [](last.op = "HasSchedule" /\ schedules[last.node] # NoSched =>
            last.b1 /\ (last.b2 <=> heap[schedules[last.node]].failed))

\* C10 witness: HasSchedule reports (true, true) for a schedule that was
\* announced, drained once with an error, and is still the entry of its node
C10_Witness ==
    /\ last.op = "HasSchedule"
    /\ last.b1 /\ last.b2
    /\ heap[last.s].call = "ok"
    /\ heap[last.s].cb = "done"
    /\ heap[last.s].drains = 1
    /\ InMap(last.s)

\* C11: HasSchedule(n) returns (false, false) when n has no entry and
\* (true, f) when it has one, f being the entry's failed flag at that moment;
\* the call changes neither the map, nor a field or the timer of a schedule,
\* nor lastDrainScheduledFor
C11_HasSchedule ==
    /\ [](last.op = "HasSchedule" =>
            LET e == schedules[last.node] IN
            /\ last.s = e
            /\ e = NoSched => (~last.b1 /\ ~last.b2)
            /\ e # NoSched => (last.b1 /\ last.b2 = heap[e].failed))
    /\ [][last'.op = "HasSchedule" =>
            UNCHANGED <<schedules, heap, lastDrainScheduledFor, period, mutex, now>>]_vars

\* C11 witness: HasSchedule returns (true, true) while the callback of the
\* entry is announcing the failed drain
C11_Witness ==
    /\ last.op = "HasSchedule"
    /\ last.b1 /\ last.b2
    /\ heap[last.s].cb = "retryF"
    /\ heap[last.s].timer = "fired"

\* C12: the announcement retry is bounded.  Every Schedule call that announces
\* returns, and every callback whose Drain has returned ends, also when
\* MarkDrain fails at every attempt (for the retries whose timeout lies within
\* the horizon of the clock): no retry stays in progress for ever, and a
\* retry is left only by its end; no attempt is made once the timeout has
\* elapsed (a timeout fixed when the retry is entered), the error is returned
\* only then, and a successful attempt is the last one of its retry and
\* yields no error
C12_BoundedRetry ==
    /\ \A s \in 1..MaxScheds :
        /\ []<>~(s \in Scheds /\ heap[s].call = "announce" /\ heap[s].callDeadline <= MaxTime)
        /\ []<>~(s \in Scheds /\ heap[s].cb \in {"retryF", "retryS"} /\ heap[s].deadline <= MaxTime)
    /\ [][/\ last'.op = "MarkDrain" =>
               LET s == last'.s IN
               IF IsZero(last'.t2)
               THEN /\ heap[s].call = "announce"
                    /\ now < heap[s].callDeadline
                    /\ heap'[s].call = IF last'.b2 THEN "ok" ELSE "announce"
               ELSE /\ heap[s].cb \in {"retryF", "retryS"}
                    /\ now < heap[s].deadline
                    /\ heap'[s].cb = IF last'.b2 THEN "done" ELSE heap[s].cb
          /\ \A s \in Scheds :
               /\ (heap[s].call = "announce" /\ heap'[s].call = "err") =>
                      /\ now >= heap[s].callDeadline
                      /\ last'.op = "ScheduleFailed" /\ last'.s = s
               /\ (heap[s].call = "announce" /\ heap'[s].call = "ok") =>
                      last'.op = "MarkDrain" /\ last'.s = s /\ last'.b2
               /\ heap[s].call \in {"ok", "err"} => heap'[s].call = heap[s].call
               /\ (heap[s].cb \in {"retryF", "retryS"} /\ heap'[s].cb # heap[s].cb) =>
                      /\ heap'[s].cb = "done"
                      /\ \/ last'.op = "MarkDrain" /\ last'.s = s /\ last'.b2
                         \/ now >= heap[s].deadline
               /\ heap[s].cb = "done" => heap'[s].cb = "done"
               /\ (heap[s].cb \in {"retryF", "retryS"} /\ heap'[s].cb = heap[s].cb) =>
                      heap'[s].deadline = heap[s].deadline
               /\ (heap[s].call = "announce" /\ heap'[s].call = "announce") =>
                      heap'[s].callDeadline = heap[s].callDeadline]_vars

\* C12 witness: MarkDrain failed at every attempt of both the Schedule call
\* and the callback of a later schedule, and both have ended
C12_Witness ==
    \E s1, s2 \in Scheds :
        /\ heap[s1].call = "err"
        /\ heap[s2].cb = "done"
        /\ heap[s2].timer = "fired"
        /\ now >= heap[s2].finish + SetConditionTimeout

\* C13: a schedule only moves forward, PENDING -> RUNNING -> SUCCEEDED | FAILED.
\* Its `when` never changes; finish goes from zero to non-zero once, in the
\* step in which Drain returns; failed goes from false to true at most once,
\* after Drain returned an error; no step (DeleteSchedule, the end of a failed
\* terminal announcement, a later Schedule of the node) takes a schedule out
\* of a terminal state or resets finish or failed, and a new schedule starts
\* PENDING
C13_ForwardOnly ==
    /\ [](\A s \in Scheds :
            /\ StateOf(heap[s]) \in {"SUCCEEDED", "FAILED"} <=> ~IsZero(heap[s].finish)
            /\ heap[s].failed => StateOf(heap[s]) = "FAILED")
    /\ [][/\ \A s \in Scheds :
               LET old == heap[s]
                   new == heap'[s]
               IN  /\ new.when = old.when
                   /\ new.node = old.node
                   /\ \/ StateOf(new) = StateOf(old)
                      \/ StateOf(old) = "PENDING" /\ StateOf(new) = "RUNNING"
                      \/ StateOf(old) = "RUNNING" /\ StateOf(new) \in {"SUCCEEDED", "FAILED"}
                   /\ new.finish # old.finish =>
                          /\ IsZero(old.finish) /\ new.finish = now
                          /\ old.cb = "drain"
                   /\ new.failed # old.failed =>
                          /\ ~old.failed /\ new.failed
                          /\ old.cb = "setFailed"
          /\ Created # NoSched =>
               /\ StateOf(heap'[Created]) = "PENDING"
               /\ IsZero(heap'[Created].finish)
               /\ ~heap'[Created].failed]_vars

\* C13 witness: a schedule that ended FAILED was deleted, keeps its finish and
\* failed values, and the node has a fresh schedule that is PENDING
C13_Witness ==
    \E s1, s2 \in Scheds :
        /\ s1 < s2
        /\ heap[s1].node = heap[s2].node
        /\ StateOf(heap[s1]) = "FAILED"
        /\ heap[s1].failed /\ ~IsZero(heap[s1].finish)
        /\ heap[s1].cb = "done"
        /\ InMap(s2)
        /\ StateOf(heap[s2]) = "PENDING"

\* C14: lastDrainScheduledFor never decreases; it changes only in the step of
\* Schedule that creates a schedule, where it becomes the new `when`;
\* DeleteSchedule, the rollback, the callbacks, HasSchedule and
\* IsScheduledByOldEvent leave it as it is
C14_LastMonotonic ==
    /\ [][/\ lastDrainScheduledFor' >= lastDrainScheduledFor
          /\ IF Created # NoSched
             THEN lastDrainScheduledFor' = heap'[Created].when
             ELSE lastDrainScheduledFor' = lastDrainScheduledFor]_vars
    /\ [](lastDrainScheduledFor = IF Len(heap) = 0 THEN ZeroTime ELSE heap[Len(heap)].when)

\* C14 witness: the first schedule was drained and is no longer an entry, the
\* second one was rolled back, and lastDrainScheduledFor still is the `when`
\* of the second
C14_Witness ==
    /\ Len(heap) = 2
    /\ last.op = "ScheduleFailed" /\ last.s = 2
    /\ heap[1].cb = "done"
    /\ ~InMap(1) /\ ~InMap(2)
    /\ lastDrainScheduledFor = heap[2].when
    /\ lastDrainScheduledFor > heap[1].when

\* C15: no Drain starts for a schedule while the Schedule call that created it
\* is still announcing it, and no Drain is ever invoked for a schedule whose
\* Schedule call returned the announcement error
C15_NoDrainBeforeAnnounced ==
    \A s \in Scheds : heap[s].call \in {"announce", "err"} => heap[s].drains = 0

\* C16: the callback makes its terminal MarkDrain announcement only after it
\* has set finish (and failed, when Drain returned an error); the announcement
\* carries the schedule's `when`, its finish, and failed = true exactly when
\* Drain returned an error.  When the announcement fails until the timeout the
\* callback just logs the error and ends: finish, failed and the map are
\* left as they were and no call of the engine returns an error
C16_TerminalAnnouncement ==
    /\ [][(last'.op = "MarkDrain" /\ ~IsZero(last'.t2)) =>
            LET s == last'.s IN
            /\ StateOf(heap[s]) \in {"SUCCEEDED", "FAILED"}
            /\ ~IsZero(heap[s].finish)
            /\ last'.node = heap[s].node
            /\ last'.t1 = heap[s].when
            /\ last'.t2 = heap[s].finish
            /\ last'.b1 = heap[s].failed
            /\ last'.b1 = (StateOf(heap[s]) = "FAILED")
            /\ heap[s].cb # "setFailed"]_vars
    /\ [][/\ \A s \in Scheds :
               (/\ heap[s].cb \in {"retryF", "retryS"}
                /\ heap'[s].cb = "done"
                /\ last'.op # "MarkDrain") => (last'.op = "LogError" /\ last'.s = s)
          /\ last'.op = "LogError" =>
               LET s == last'.s IN
               /\ heap[s].cb \in {"retryF", "retryS"}
               /\ now >= heap[s].deadline
               /\ heap'[s].cb = "done"
               /\ heap'[s].finish = heap[s].finish
               /\ heap'[s].failed = heap[s].failed
               /\ \A o \in Scheds \ {s} : heap'[o] = heap[o]
               /\ schedules' = schedules
               /\ lastDrainScheduledFor' = lastDrainScheduledFor]_vars

\* C16 witness: the callback of a failed drain ended after its announcement
\* failed until the timeout, the schedule still is the entry of its node with
\* finish and failed set
C16_Witness ==
    \E s \in Scheds :
        /\ heap[s].cb = "done"
        /\ heap[s].failed
        /\ ~IsZero(heap[s].finish)
        /\ now >= heap[s].finish + SetConditionTimeout
        /\ InMap(s)
        /\ last.op = "LogError" /\ last.s = s /\ last.b1

\* some goroutine is inside RetryWithTimeout/MarkDrain or inside Drain
InFlight ==
    \E s \in Scheds : heap[s].call = "announce" \/ heap[s].cb \in {"drain", "retryF", "retryS"}

\* C17: the mutex is not held while an announcement (with its retries) or a
\* Drain is executing, so that HasSchedule, DeleteSchedule,
\* IsScheduledByOldEvent and Schedule of any node can run to completion
\* meanwhile, and so can the rollback of a Schedule whose announcement timed
\* out, which takes the lock again
C17_NoLockWhileBlocking ==
    InFlight =>
        /\ mutex = NoNode
        /\ \A n \in Nodes :
            /\ ENABLED HasSchedule(n)
            /\ ENABLED DeleteSchedule(n)
            /\ ENABLED IsScheduledByOldEvent(n, now)
            /\ (schedules[n] # NoSched \/ Len(heap) < MaxScheds) => ENABLED Schedule(n)
        /\ \A s \in Scheds :
            (heap[s].call = "announce" /\ RetryTimedOut(heap[s].callDeadline)) =>
                ENABLED ScheduleRollback(s)

\* C17 witness: HasSchedule has returned while the Drain of one schedule and
\* the announcement of another one were in flight
C17_Witness ==
    /\ last.op = "HasSchedule"
    /\ mutex = NoNode
    /\ \E s1, s2 \in Scheds :
        /\ heap[s1].cb = "drain"
        /\ heap[s2].call = "announce"
        /\ last.s = s1

\* C18: a Schedule call whose announcement failed leaves no residue.  At its
\* return, when no schedule was created since and the timer of its schedule
\* did not fire, the node has no entry and lastDrainScheduledFor is what it
\* was before the call (the `when` of the schedule created before, the zero
\* time when there is none), so that the next Schedule computes the `when` it
\* would have computed had the failed call never happened
C18_NoResidue ==
    (last.op = "ScheduleFailed" /\ last.s = Len(heap) /\ heap[last.s].cb = "idle") =>
        LET before == IF last.s = 1 THEN ZeroTime ELSE heap[last.s - 1].when
            floor == now + SetConditionTimeout + Second
        IN  /\ schedules[last.node] = NoSched
            /\ lastDrainScheduledFor = before
            /\ WhenNextSchedule = IF before + period > floor THEN before + period ELSE floor

\* C19: the entry of a schedule whose Schedule call returned success is
\* removed, and its timer stopped, only by a DeleteSchedule of its node made
\* by a caller; the rollback of another Schedule call of the same node, whose
\* own announcement failed, neither removes it nor stops its timer
C19_RollbackOwnOnly ==
    [][\A s \in Scheds :
        (/\ heap[s].call = "ok"
         /\ \/ InMap(s) /\ ~InMap(s)'
            \/ heap[s].timer = "armed" /\ heap'[s].timer = "stopped") =>
                (last'.op = "DeleteSchedule" /\ last'.node = heap[s].node)]_vars

\* C20: when Schedule(n) returns AlreadyScheduled with the `when` of an
\* entry, the Schedule call that created that entry does not go on to return
\* the announcement error and remove the entry: a rejected Schedule(n) is
\* never directly followed by the failure of the creating call
C20_RejectedMeansPending ==
    [][last.op = "ScheduleRejected" =>
          ~(/\ last'.op = "ScheduleFailed"
            /\ last'.s = last.s
            /\ last'.node = last.node
            /\ schedules'[last.node] = NoSched)]_vars

====
